---------------------------- MODULE Spec2Model ----------------------------
(***************************************************************************)
(* Model of the trading-journal calendar component (TradingJournal):       *)
(* the trade record store and its persistence to localStorage, the edit    *)
(* form, the statistics aggregator (calculateStats), the share dialog     *)
(* with its image generation (generateShareImage), and the month grid      *)
(* (generateCalendarDays).                                                 *)
(*                                                                         *)
(* The repository holds two variants of the component, which differ in     *)
(* what the load effect does when nothing usable is saved, in the save     *)
(* effect's empty branch and in the presence of clearAllData:              *)
(*   "journal"  - src/unnamed/part_000                                     *)
(*   "calendar" - src/src/components/PNLCalendar.tsx                       *)
(*                                                                         *)
(* Conventions.  Money is fixed-point, in hundredths of a peso (the        *)
(* argument of formatPNL in thousandths, so that its rounding to two       *)
(* decimals has something to round).  A date                               *)
(* key "YYYY-MM-DD" is represented by its day number (days since           *)
(* 1970-01-01), so that string order is integer order.  An instant is a    *)
(* number of hours since 1970-01-01T00:00Z.  An optional number is <<>>    *)
(* (undefined) or <<n>>.                                                   *)
(***************************************************************************)
EXTENDS Integers, Sequences, FiniteSets, TLC

VARIABLES
    variant,        \* which of the two source variants runs
    quotaFull,      \* environment: localStorage.setItem throws (quota exceeded)
    tz,             \* local-time offset from UTC, in hours (east positive)
    phase,          \* position in the mount / effect cycle
    data,           \* useState data: the trade store (sequence of records)
    pending,        \* state update queued by the load effect (setData)
    storage,        \* localStorage["tradingJournalData"]
    editingDate,    \* useState editingDate: <<>> (null) or <<key>>
    isModalOpen,    \* useState isModalOpen
    inputValue,     \* useState inputValue (text of the P&L input)
    entryValue,     \* useState entryValue
    slValue,        \* useState slValue
    tpValue,        \* useState tpValue
    currentMonth,   \* useState currentMonth, 0..11
    currentYear,    \* useState currentYear
    stats,          \* <<>> or <<result of the last calculateStats call>>
    statsFor,       \* the timeframe argument of that call
    lastOp,         \* history: the last operation that changed the store
    saveOk,         \* history: the last save effect left without a caught error
    initBlob,       \* history: what storage held at mount (until the mount settles)
    ups,            \* history: per date key, what the upsert contract expects
    retained,       \* history: the last upsert omitted a field that had a value
    carried,        \* history: the store the previous session saved (until the mount settles)
    showShareModal, \* useState showShareModal
    selectedTimeframe, \* useState selectedTimeframe
    previewUrl,     \* useState previewUrl: <<>> (null) or <<handle>>
    gens,           \* the generateShareImage calls made so far, in call order
    revoked,        \* per handle made by URL.createObjectURL, how often it was revoked
    download,       \* history: <<>> or <<the file last offered for download>>
    clicked,        \* history: <<>> or <<index of the cell last clicked in the shown grid>>
    value,          \* the argument of the last formatPNL call (<<>> before the first)
    shown,          \* the string that call returned
    colour,         \* the colour that string is drawn in (<<>>: none chosen)
    typed           \* history: <<the texts of the optional inputs at the Save just made>>, else <<>>

vars == <<variant, quotaFull, tz, phase, data, pending, storage, editingDate, isModalOpen,
          inputValue, entryValue, slValue, tpValue, currentMonth, currentYear,
          stats, statsFor, lastOp, saveOk, initBlob, ups, retained, carried,
          showShareModal, selectedTimeframe, previewUrl, gens, revoked,
          download, clicked, value, shown, colour, typed>>

uiVars == <<editingDate, isModalOpen, inputValue, entryValue, slValue, tpValue>>
viewVars == <<currentMonth, currentYear>>
statVars == <<stats, statsFor>>
envVars == <<variant, quotaFull, tz>>
storeVars == <<data, pending, storage, lastOp, saveOk, initBlob, ups, retained,
               carried>>
shareVars == <<showShareModal, selectedTimeframe, previewUrl, gens, revoked,
               download>>
fmtVars == <<value, shown, colour>>

-----------------------------------------------------------------------------
(* Generic helpers *)

None == <<>>
Some(x) == <<x>>

\* periodData.reduce((sum, d) => sum + d.pnl, 0)
RECURSIVE SumPnl(_)
SumPnl(s) == IF s = <<>> THEN 0 ELSE Head(s).pnl + SumPnl(Tail(s))

Max(a, b) == IF a >= b THEN a ELSE b

\* Array.prototype.findIndex on the date key: 1-based index of the first
\* record with that key, 0 when there is none (-1 in JavaScript).
FindIndex(s, key) ==
    IF \E i \in 1..Len(s) : s[i].date = key
    THEN CHOOSE i \in 1..Len(s) :
            /\ s[i].date = key
            /\ \A j \in 1..(i - 1) : s[j].date # key
    ELSE 0

-----------------------------------------------------------------------------
(* The calendar of the JavaScript Date object (proleptic Gregorian). *)

\* Day number of the civil date y-m-d, m in 1..12.
DaysFromCivil(y, m, d) ==
    LET yy  == IF m <= 2 THEN y - 1 ELSE y
        era == yy \div 400
        yoe == yy - era * 400
        mp  == IF m > 2 THEN m - 3 ELSE m + 9
        doy == (153 * mp + 2) \div 5 + d - 1
        doe == yoe * 365 + yoe \div 4 - yoe \div 100 + doy
    IN  era * 146097 + doe - 719468

\* Civil date [y, m (1..12), d] of a day number.
CivilFromDays(z) ==
    LET zz  == z + 719468
        era == zz \div 146097
        doe == zz - era * 146097
        yoe == (doe - doe \div 1460 + doe \div 36524 - doe \div 146096) \div 365
        doy == doe - (365 * yoe + yoe \div 4 - yoe \div 100)
        mp  == (5 * doy + 2) \div 153
        d   == doy - (153 * mp + 2) \div 5 + 1
        m   == IF mp < 10 THEN mp + 3 ELSE mp - 9
        y   == yoe + era * 400
    IN  [y |-> IF m <= 2 THEN y + 1 ELSE y, m |-> m, d |-> d]

\* new Date(year, monthIndex, day): local midnight, as an instant.  Day may
\* lie outside the month (generateCalendarDays passes 0, -1, ...).
\* A monthIndex outside 0..11 carries into the year.
LocalMidnight(year, monthIndex, day, offset) ==
    (DaysFromCivil(year + (monthIndex \div 12), (monthIndex % 12) + 1, 1) + day - 1) * 24
        - offset

\* new Date("YYYY-MM-DD"): a date-only ISO string is UTC midnight.
ParseDateKey(key) == key * 24

\* date.toISOString().split("T")[0]: the UTC calendar day of an instant.
ISODate(instant) == instant \div 24

\* getMonth() (0..11) and getFullYear(): read in local time.
GetMonth(instant, offset) == CivilFromDays((instant + offset) \div 24).m - 1
GetFullYear(instant, offset) == CivilFromDays((instant + offset) \div 24).y

\* getDate() (1..31) and getDay() (0 = Sunday .. 6 = Saturday), local time;
\* 1970-01-01 was a Thursday.
GetDate(instant, offset) == CivilFromDays((instant + offset) \div 24).d
GetDay(instant, offset) == ((instant + offset) \div 24 + 4) % 7

\* new Date(): the evaluation instant, 2024-02-05T12:00Z; the local
\* calendar day is 2024-02-05 for every offset of Offsets.
Now == DaysFromCivil(2024, 2, 5) * 24 + 12
Offsets == {-5, 0, 8}
Today == ISODate(Now)

-----------------------------------------------------------------------------
(* Texts of the number inputs, parseFloat and Number.prototype.toString. *)

\* parseFloat on the texts the form can hold: <<>> is NaN.
ParseFloat(t) ==
    CASE t = ""    -> None
      [] t = "0"   -> Some(0)
      [] t = "-50" -> Some(-5000)
      [] t = "100" -> Some(10000)
      [] t = "110" -> Some(11000)
      [] t = "120" -> Some(12000)
      [] t = "140" -> Some(14000)

\* n.toString() on the numbers the store can hold.
NumToString(n) ==
    CASE n = 0     -> "0"
      [] n = -5000 -> "-50"
      [] n = 10000 -> "100"
      [] n = 11000 -> "110"
      [] n = 12000 -> "120"
      [] n = 14000 -> "140"

\* parseFloat(text) || 0: NaN and 0 are falsy.
OrZero(p) == IF p = None \/ p = Some(0) THEN 0 ELSE p[1]

\* parseFloat(text) || undefined.
OrUndefined(p) == IF p = None \/ p = Some(0) THEN None ELSE p

\* a ?? b on optional numbers.
Coalesce(a, b) == IF a # None THEN a ELSE b

\* What the user can type into each input.
PnlTexts == {"0", "100"}
EntryTexts == {"", "0", "100"}
SlTexts == {"", "110"}
TpTexts == {"", "140"}

-----------------------------------------------------------------------------
(* TradeData and its JSON form. *)

OptFields == {"entry", "sl", "tp"}

TradeData(date, pnl, entry, sl, tp) ==
    [date |-> date, pnl |-> pnl, entry |-> entry, sl |-> sl, tp |-> tp]

\* localStorage values.  A JSON array is given by its items; each item is an
\* object, a function from the keys it has to their values.
Absent == [kind |-> "absent"]           \* getItem returns null
EmptyText == [kind |-> "empty"]         \* the empty string
InvalidJSON == [kind |-> "invalid"]     \* JSON.parse throws
NonArrayJSON == [kind |-> "object"]     \* parses, Array.isArray is false
ArrayJSON(items) == [kind |-> "array", items |-> items]

\* A serializer that writes the required keys only.
StringifyCore(r) == [k \in {"date", "pnl"} |-> r[k]]

\* JSON.stringify of one record: a key whose value is undefined is left out.
StringifyRecord(r) ==
    LET keys == {"date", "pnl"} \cup {f \in OptFields : r[f] # None}
    IN  [k \in keys |-> IF k \in OptFields THEN r[k][1] ELSE r[k]]

\* JSON.stringify(data)
JSONStringify(s) == ArrayJSON([i \in 1..Len(s) |-> StringifyRecord(s[i])])

\* A parsed object read as TradeData: a missing key reads as undefined.
ReadRecord(o) ==
    LET opt(f) == IF f \in DOMAIN o THEN Some(o[f]) ELSE None
    IN  TradeData(o.date, o.pnl, opt("entry"), opt("sl"), opt("tp"))

\* JSON.parse(savedData) for an array text.
JSONParse(blob) == [i \in 1..Len(blob.items) |-> ReadRecord(blob.items[i])]

-----------------------------------------------------------------------------
(* Store operations. *)

\* data.find((d) => d.date === dateStr): <<>> or <<record>>.
Find(s, key) ==
    LET idx == FindIndex(s, key) IN IF idx = 0 THEN None ELSE Some(s[idx])

\* getTrade(date) for a Date given as an instant.
getTrade(s, instant) == Find(s, ISODate(instant))

\* An updater that overwrites entry even when the call omits it.
UpsertEntryAlways(prev, key, pnl, entry, sl, tp) ==
    LET idx == FindIndex(prev, key)
    IN  IF idx > 0
        THEN [prev EXCEPT ![idx] = TradeData(key, pnl, entry,
                                             Coalesce(sl, prev[idx].sl),
                                             Coalesce(tp, prev[idx].tp))]
        ELSE Append(prev, TradeData(key, pnl, entry, sl, tp))

\* An updater that writes the new pnl into every record when the date exists.
UpsertTouchesAll(prev, key, pnl, entry, sl, tp) ==
    LET idx == FindIndex(prev, key)
    IN  IF idx > 0
        THEN [i \in 1..Len(prev) |->
                IF i = idx
                THEN TradeData(key, pnl, Coalesce(entry, prev[idx].entry),
                               Coalesce(sl, prev[idx].sl), Coalesce(tp, prev[idx].tp))
                ELSE [prev[i] EXCEPT !.pnl = pnl]]
        ELSE Append(prev, TradeData(key, pnl, entry, sl, tp))

\* The updater that updateTrade passes to setData.
Upsert(prev, key, pnl, entry, sl, tp) ==
    LET idx == FindIndex(prev, key)
    IN  IF idx > 0
        THEN [prev EXCEPT ![idx] = TradeData(key, pnl,
                                             Coalesce(entry, prev[idx].entry),
                                             Coalesce(sl, prev[idx].sl),
                                             Coalesce(tp, prev[idx].tp))]
        ELSE Append(prev, TradeData(key, pnl, entry, sl, tp))

\* A save effect that writes only a store of two or more records.
SaveOnlyMany(v, s, blob, ok) ==
    IF Len(s) > 1
    THEN (IF ok THEN JSONStringify(s) ELSE blob)
    ELSE IF v = "journal" THEN Absent ELSE blob

\* A save effect whose failed write loses the value that was stored.
SaveFailureClears(v, s, blob, ok) ==
    IF Len(s) > 0
    THEN (IF ok THEN JSONStringify(s) ELSE Absent)
    ELSE IF v = "journal" THEN Absent ELSE blob

\* What the save effect leaves in storage.  ok: setItem does not throw.
SaveResult(v, s, blob, ok) ==
    IF Len(s) > 0
    THEN (IF ok THEN JSONStringify(s) ELSE blob)
    ELSE IF v = "journal" THEN Absent ELSE blob

-----------------------------------------------------------------------------
(* Mount: the load effect, generateSampleData, and what storage may hold. *)

\* Number of records generateSampleData draws (15 in the source).
MaxSample == 2

\* Day offsets Math.floor(Math.random() * 30) may give, cut down to two.
SampleOffsets == {0, 1}

\* One record of generateSampleData: a day of the last 30, a rounded P&L in
\* [-800, 1200], an entry price and stop / target around it.
SampleRecords ==
    { TradeData(ISODate(Now - k * 24), 10000, Some(12000), Some(11000), Some(14000)) :
        k \in SampleOffsets }

SampleData == [1..MaxSample -> SampleRecords]

\* Stores a previous session may have left in storage.
SavedA == TradeData(DaysFromCivil(2024, 2, 1), 10000, Some(12000), None, None)
SavedB == TradeData(DaysFromCivil(2024, 2, 4), 10000, None, Some(11000), Some(14000))
SavedStores == { <<>>, <<SavedA>>, <<SavedA, SavedB>> }

InitBlobs ==
    {Absent, EmptyText, InvalidJSON, NonArrayJSON}
        \cup { JSONStringify(s) : s \in SavedStores }

\* if (savedData): null and "" are falsy.
Truthy(blob) == blob.kind \notin {"absent", "empty"}

\* The load effect returns early with the parsed array.
LoadsArray(blob) == Truthy(blob) /\ blob.kind = "array"

\* Storage after the load effect: only the catch branch removes the key.
LoadStorage(blob) == IF blob.kind = "invalid" THEN Absent ELSE blob

\* The stores the load effect may pass to setData.
Loaded(v, blob) ==
    IF LoadsArray(blob) THEN { JSONParse(blob) }
    ELSE IF v = "journal" THEN { <<>> }
    ELSE SampleData

-----------------------------------------------------------------------------
(* History: the store as the contract of upsert describes it, a map from   *)
(* date key to the last pnl and, per optional field, the last value that   *)
(* was supplied.  It is kept beside the component's state and never read   *)
(* by it.                                                                  *)

NoUps == [k \in {} |-> None]

Fields(r) == [pnl |-> r.pnl, entry |-> r.entry, sl |-> r.sl, tp |-> r.tp]

\* The map a hydrated store stands for: per key, its first record.
Hydrated(s) ==
    [k \in {s[i].date : i \in 1..Len(s)} |-> Fields(s[FindIndex(s, k)])]

Supplied(old, new) == IF new # None THEN new ELSE old

Prior(h, key) ==
    IF key \in DOMAIN h THEN h[key]
    ELSE [pnl |-> 0, entry |-> None, sl |-> None, tp |-> None]

RecordUpsert(h, key, pnl, entry, sl, tp) ==
    LET old == Prior(h, key)
        new == [pnl |-> pnl,
                entry |-> Supplied(old.entry, entry),
                sl |-> Supplied(old.sl, sl),
                tp |-> Supplied(old.tp, tp)]
    IN  [k \in DOMAIN h \cup {key} |-> IF k = key THEN new ELSE h[k]]

\* Some optional field was omitted by the call although it had a value.
OmitsKnown(h, key, entry, sl, tp) ==
    LET old == Prior(h, key)
    IN  \/ entry = None /\ old.entry # None
        \/ sl = None /\ old.sl # None
        \/ tp = None /\ old.tp # None

-----------------------------------------------------------------------------
(* The component: mount effects, the edit form, the store mutations. *)

\* Days of the shown month whose cells the user clicks.
ClickDays == {1, 5}

\* The offsets the form is run under: west of Greenwich a cell's key is the
\* cell's day, as at offset 0.
FormOffsets == {0, 8}

\* A full storage is explored at one offset and over two saved values.
QuotaBlobs == {Absent, JSONStringify(<<SavedA>>)}

\* The useState initial values of the share dialog; nothing generated yet.
ShareInit ==
    /\ showShareModal = FALSE
    /\ selectedTimeframe = "monthly"
    /\ previewUrl = None
    /\ gens = <<>>
    /\ revoked = <<>>
    /\ download = None

Init ==
    /\ variant \in {"journal", "calendar"}
    /\ quotaFull \in BOOLEAN
    /\ tz \in FormOffsets
    /\ storage \in InitBlobs
    /\ quotaFull => tz = 0 /\ storage \in QuotaBlobs
    /\ phase = "mount"
    /\ data = <<>>
    /\ pending = <<>>
    /\ editingDate = None
    /\ isModalOpen = FALSE
    /\ inputValue = ""
    /\ entryValue = ""
    /\ slValue = ""
    /\ tpValue = ""
    /\ currentMonth = GetMonth(Now, tz)
    /\ currentYear = GetFullYear(Now, tz)
    /\ stats = None
    /\ statsFor = "undefined"
    /\ lastOp = "none"
    /\ saveOk = TRUE
    /\ initBlob = Some(storage)
    /\ ups = NoUps
    /\ retained = FALSE
    /\ carried = None
    /\ ShareInit
    /\ clicked = None
    /\ value = None /\ shown = None /\ colour = None
    /\ typed = None

\* useEffect(() => {...}, []): read storage, queue setData.
LoadEffect ==
    /\ phase = "mount"
    /\ pending' \in Loaded(variant, storage)
    /\ storage' = LoadStorage(storage)
    /\ phase' = "mountSave"
    /\ UNCHANGED <<variant, quotaFull, tz, data, uiVars, viewVars, statVars, lastOp,
                   saveOk, initBlob, ups, retained, carried>>
    /\ UNCHANGED <<shareVars, clicked, fmtVars, typed>>

\* Whether the save effect ends without a caught error for store s.
Saves(s) == Len(s) = 0 \/ ~quotaFull

\* useEffect(() => {...}, [data]) during the mount: it runs once with the
\* initial state and again when the hydrated state is committed.  (After a
\* mutation by the user it runs as part of that mutation, see UpdateTrade.)
SaveEffect ==
    /\ phase \in {"mountSave", "save"}
    /\ storage' = SaveResult(variant, data, storage, ~quotaFull)
    /\ saveOk' = Saves(data)
    /\ phase' = IF phase = "mountSave" THEN "hydrate" ELSE "ready"
    /\ initBlob' = IF phase = "mountSave" THEN initBlob ELSE None
    /\ carried' = IF phase = "mountSave" THEN carried ELSE None
    /\ UNCHANGED <<variant, quotaFull, tz, data, pending, uiVars, viewVars, statVars,
                   lastOp, ups, retained>>
    /\ UNCHANGED <<shareVars, clicked, fmtVars, typed>>

\* React commits the state queued by the load effect and re-renders.
Commit ==
    /\ phase = "hydrate"
    /\ data' = pending
    /\ pending' = <<>>
    /\ phase' = "save"
    /\ lastOp' = "load"
    /\ ups' = Hydrated(pending)
    /\ UNCHANGED <<variant, quotaFull, tz, storage, uiVars, viewVars, statVars, saveOk,
                   initBlob, retained, carried>>
    /\ UNCHANGED <<shareVars, clicked, fmtVars, typed>>

\* A handleCellClick that opens the form for whatever cell it is given.
OpenEditorAnyCell(date, isCurrent) ==
    /\ LET trade == getTrade(data, date)
           text(opt) == IF opt = None THEN "" ELSE NumToString(opt[1])
       IN  /\ editingDate' = Some(ISODate(date))
           /\ inputValue' = IF trade = None THEN "0"
                            ELSE NumToString(trade[1].pnl)
           /\ entryValue' = IF trade = None THEN "" ELSE text(trade[1].entry)
           /\ slValue' = IF trade = None THEN "" ELSE text(trade[1].sl)
           /\ tpValue' = IF trade = None THEN "" ELSE text(trade[1].tp)
    /\ isModalOpen' = TRUE

\* The body of handleCellClick(date, isCurrent, e): nothing for a cell that
\* is not of the shown month, else the form is filled in and opened.
OpenEditor(date, isCurrent) ==
    IF ~isCurrent
    THEN UNCHANGED uiVars
    ELSE /\ LET trade == getTrade(data, date)
                text(opt) == IF opt = None THEN "" ELSE NumToString(opt[1])
            IN  /\ editingDate' = Some(ISODate(date))
                /\ inputValue' = IF trade = None THEN "0"
                                 ELSE NumToString(trade[1].pnl)
                /\ entryValue' = IF trade = None THEN "" ELSE text(trade[1].entry)
                /\ slValue' = IF trade = None THEN "" ELSE text(trade[1].sl)
                /\ tpValue' = IF trade = None THEN "" ELSE text(trade[1].tp)
         /\ isModalOpen' = TRUE

\* handleCellClick(date, true, e) on the cell of a day of the shown month.
HandleCellClick(day) ==
    /\ phase = "ready"
    /\ ~isModalOpen /\ ~showShareModal
    /\ OpenEditor(LocalMidnight(currentYear, currentMonth, day, tz), TRUE)
    /\ UNCHANGED <<variant, quotaFull, tz, phase, data, pending, storage, viewVars,
                   statVars, lastOp, saveOk, initBlob, ups, retained, carried>>
    /\ typed' = None
    /\ UNCHANGED <<shareVars, clicked, fmtVars>>

\* updateTrade(pnl, entry, sl, tp), as the Save button and the Enter key
\* call it with the parsed inputs, and the save effect that the change of
\* data triggers before the next event is handled.  The onChange handlers
\* only store the typed text, so the texts typed since the form opened are chosen here:
\* each input holds what the click filled in or what the user typed.
UpdateTrade ==
    /\ phase = "ready" /\ isModalOpen
    /\ \E i \in PnlTexts \cup {inputValue}, e \in EntryTexts \cup {entryValue},
          s \in SlTexts \cup {slValue}, t \in TpTexts \cup {tpValue} :
        LET pnl   == OrZero(ParseFloat(i))
            entry == OrUndefined(ParseFloat(e))
            sl    == OrUndefined(ParseFloat(s))
            tp    == OrUndefined(ParseFloat(t))
        IN  IF editingDate = None
            THEN UNCHANGED <<data, storage, saveOk, uiVars, lastOp, ups,
                             retained, typed>>
            ELSE /\ data' = Upsert(data, editingDate[1], pnl, entry, sl, tp)
                 /\ storage' = SaveResult(variant, data', storage, ~quotaFull)
                 /\ saveOk' = Saves(data')
                 /\ ups' = RecordUpsert(ups, editingDate[1], pnl, entry, sl, tp)
                 /\ retained' = OmitsKnown(ups, editingDate[1], entry, sl, tp)
                 /\ lastOp' = "upsert"
                 /\ isModalOpen' = FALSE
                 /\ inputValue' = ""
                 /\ entryValue' = ""
                 /\ slValue' = ""
                 /\ tpValue' = ""
                 /\ UNCHANGED editingDate
                 /\ typed' = Some([entry |-> e, sl |-> s, tp |-> t])
    /\ UNCHANGED <<variant, quotaFull, tz, phase, pending, viewVars,
                   statVars, initBlob, carried>>
    /\ UNCHANGED <<shareVars, clicked, fmtVars>>

\* The Cancel button: setIsModalOpen(false).
Cancel ==
    /\ phase = "ready" /\ isModalOpen
    /\ isModalOpen' = FALSE
    /\ UNCHANGED <<variant, quotaFull, tz, phase, data, pending, storage, editingDate,
                   inputValue, entryValue, slValue, tpValue, viewVars,
                   statVars, lastOp, saveOk, initBlob, ups, retained, carried>>
    /\ UNCHANGED <<shareVars, clicked, fmtVars, typed>>

\* clearAllData (only the journal variant has the button), and the save
\* effect that the change of data triggers.
ClearAllData ==
    /\ variant = "journal"
    /\ phase = "ready" /\ ~isModalOpen /\ ~showShareModal
    /\ data' = <<>>
    /\ storage' = SaveResult(variant, data', Absent, ~quotaFull)
    /\ saveOk' = Saves(data')
    /\ lastOp' = "clear"
    /\ ups' = NoUps
    /\ retained' = FALSE
    /\ UNCHANGED <<variant, quotaFull, tz, phase, pending, uiVars, viewVars,
                   statVars, initBlob, carried>>
    /\ typed' = None
    /\ UNCHANGED <<shareVars, clicked, fmtVars>>

\* The page is left and opened again: a fresh mount over the same storage.
Reload ==
    /\ phase = "ready"
    /\ carried' = IF saveOk THEN Some(data) ELSE None
    /\ phase' = "mount"
    /\ data' = <<>>
    /\ pending' = <<>>
    /\ editingDate' = None
    /\ isModalOpen' = FALSE
    /\ inputValue' = ""
    /\ entryValue' = ""
    /\ slValue' = ""
    /\ tpValue' = ""
    /\ lastOp' = "none"
    /\ saveOk' = TRUE
    /\ initBlob' = Some(storage)
    /\ ups' = NoUps
    /\ retained' = FALSE
    /\ UNCHANGED <<variant, quotaFull, tz, storage, viewVars, statVars>>
    /\ typed' = None
    /\ UNCHANGED <<shareVars, clicked, fmtVars>>

Next ==
    \/ LoadEffect
    \/ SaveEffect
    \/ Commit
    \/ \E day \in ClickDays : HandleCellClick(day)
    \/ UpdateTrade
    \/ Cancel
    \/ ClearAllData
    \/ Reload

Spec == Init /\ [][Next]_vars

-----------------------------------------------------------------------------
(* The statistics aggregator. *)

Timeframes == {"undefined", "daily", "weekly", "monthly"}

\* weekAgo.setDate(weekAgo.getDate() - 7); weekAgo.toISOString().split("T")[0]
WeekAgoStr == ISODate(Now - 7 * 24)

\* The window filter of calculateStats.
PeriodData(s, timeframe, month, year, offset) ==
    LET isToday(d) == d.date = Today
        sinceWeekAgo(d) == d.date >= WeekAgoStr
        inMonth(d) ==
            /\ GetMonth(ParseDateKey(d.date), offset) = month
            /\ GetFullYear(ParseDateKey(d.date), offset) = year
    IN  IF timeframe = "daily" THEN SelectSeq(s, isToday)
        ELSE IF timeframe = "weekly" THEN SelectSeq(s, sinceWeekAgo)
        ELSE SelectSeq(s, inMonth)

\* x.toFixed(1) for x = wins / traded * 100: the tenths, rounded half up.
ToFixed1(wins, traded) == (2000 * wins + traded) \div (2 * traded)

\* A winRate that tests wins instead of tradedDays.
WinRateOnWins(wins, traded) ==
    IF wins > 0
    THEN [whole |-> ToFixed1(wins, traded) \div 10,
          tenth |-> Some(ToFixed1(wins, traded) % 10)]
    ELSE [whole |-> 0, tenth |-> None]

\* The winRate text: "0", or a number with one decimal.
WinRate(wins, traded) ==
    IF traded > 0
    THEN [whole |-> ToFixed1(wins, traded) \div 10,
          tenth |-> Some(ToFixed1(wins, traded) % 10)]
    ELSE [whole |-> 0, tenth |-> None]

\* [...periodData].sort((a, b) => new Date(a.date).getTime() -
\* new Date(b.date).getTime()): a stable sort, here by insertion.
RECURSIVE InsertByDate(_, _)
InsertByDate(s, r) ==
    IF s = <<>> THEN <<r>>
    ELSE IF ParseDateKey(r.date) - ParseDateKey(Head(s).date) < 0
         THEN <<r>> \o s
         ELSE <<Head(s)>> \o InsertByDate(Tail(s), r)

RECURSIVE SortByDate(_)
SortByDate(s) ==
    IF s = <<>> THEN <<>>
    ELSE InsertByDate(SortByDate(SubSeq(s, 1, Len(s) - 1)), s[Len(s)])

\* A streak loop in which a zero day resets the counter.
RECURSIVE StreakResetOnZero(_, _, _)
StreakResetOnZero(s, currentStreak, maxStreak) ==
    IF s = <<>> THEN maxStreak
    ELSE IF Head(s).pnl > 0
         THEN StreakResetOnZero(Tail(s), currentStreak + 1,
                                Max(maxStreak, currentStreak + 1))
         ELSE StreakResetOnZero(Tail(s), 0, maxStreak)

\* The streak loop: currentStreak and maxStreak over the sorted days.
RECURSIVE Streak(_, _, _)
Streak(s, currentStreak, maxStreak) ==
    IF s = <<>> THEN maxStreak
    ELSE IF Head(s).pnl > 0
         THEN Streak(Tail(s), currentStreak + 1,
                     Max(maxStreak, currentStreak + 1))
         ELSE IF Head(s).pnl < 0
              THEN Streak(Tail(s), 0, maxStreak)
              ELSE Streak(Tail(s), currentStreak, maxStreak)

calculateStats(s, timeframe, month, year, offset) ==
    LET periodData == PeriodData(s, timeframe, month, year, offset)
        traded(d) == d.pnl # 0
        win(d) == d.pnl > 0
        loss(d) == d.pnl < 0
        sinceWeekAgo(d) == d.date >= WeekAgoStr
        wins == Len(SelectSeq(periodData, win))
    IN  [total |-> SumPnl(periodData),
         traded |-> Len(SelectSeq(periodData, traded)),
         wins |-> wins,
         losses |-> Len(SelectSeq(periodData, loss)),
         winRate |-> WinRate(wins, Len(SelectSeq(periodData, traded))),
         maxStreak |-> Streak(SortByDate(periodData), 0, 0),
         weeklyProfit |-> SumPnl(SelectSeq(s, sinceWeekAgo))]

-----------------------------------------------------------------------------
(* The aggregator over bounded stores: Init draws the store, the shown     *)
(* month and the offset, CalcStats applies calculateStats.                 *)

\* Longest store drawn.
MaxLen == 3

StatDates == {Today - 7, DaysFromCivil(2024, 2, 1), Today, Today + 1}
StatPnls == {-5000, 0, 10000}
StatRecords == { TradeData(d, p, None, None, None) : d \in StatDates, p \in StatPnls }

Day(y, m, d, p) == TradeData(DaysFromCivil(y, m, d), p, None, None, None)

\* The scenario store: {2024-01-05: +100, 2024-01-06: -50, 2024-01-07: 0}.
JanuaryExample == << Day(2024, 1, 5, 10000), Day(2024, 1, 6, -5000), Day(2024, 1, 7, 0) >>

\* Daily P&L [+10, 0, +5, -1, +20] on the five days up to today.
StreakExample ==
    << Day(2024, 2, 1, 1000), Day(2024, 2, 2, 0), Day(2024, 2, 3, 500),
       Day(2024, 2, 4, -100), Day(2024, 2, 5, 2000) >>

StatStores ==
    UNION { [1..n -> StatRecords] : n \in 0..MaxLen }
        \cup {JanuaryExample, StreakExample}

\* No two records of s have the same date.
DistinctDates(s) == \A i, j \in 1..Len(s) : i # j => s[i].date # s[j].date

\* A store with two records on one date arises only from generateSampleData,
\* so such a store is given to the calendar variant.
InitStats ==
    /\ data \in StatStores
    /\ variant = (IF DistinctDates(data) THEN "journal" ELSE "calendar")
    /\ quotaFull = FALSE
    /\ tz \in Offsets
    /\ phase = "ready"
    /\ pending = <<>>
    /\ storage = IF data = <<>> THEN Absent ELSE JSONStringify(data)
    /\ editingDate = None
    /\ isModalOpen = FALSE
    /\ inputValue = ""
    /\ entryValue = ""
    /\ slValue = ""
    /\ tpValue = ""
    /\ currentMonth \in {0, 1}
    /\ currentYear = 2024
    /\ stats = None
    /\ statsFor = "undefined"
    /\ lastOp = "load"
    /\ saveOk = TRUE
    /\ initBlob = None
    /\ ups = Hydrated(data)
    /\ retained = FALSE
    /\ carried = None
    /\ ShareInit
    /\ clicked = None
    /\ value = None /\ shown = None /\ colour = None
    /\ typed = None

\* A render or generateShareImage calls calculateStats(timeframe).
CalcStats(timeframe) ==
    /\ phase = "ready"
    /\ stats' = Some(calculateStats(data, timeframe, currentMonth, currentYear, tz))
    /\ statsFor' = timeframe
    /\ UNCHANGED <<variant, quotaFull, tz, phase, data, pending, storage,
                   uiVars, viewVars, lastOp, saveOk, initBlob, ups, retained,
                   carried>>
    /\ UNCHANGED <<shareVars, clicked, fmtVars, typed>>

NextStats == \E timeframe \in Timeframes : CalcStats(timeframe)

SpecStats == InitStats /\ [][NextStats]_vars

-----------------------------------------------------------------------------
(* The share dialog.  A handle made by URL.createObjectURL is a number, the *)
(* index of its entry in revoked.  gens holds one record per call of        *)
(* generateShareImage: the call's position (stage), what it closed over    *)
(* (forPreview, the timeframe and the statistics on the card) and what it  *)
(* resolved with.                                                          *)

ShareTimeframes == {"daily", "weekly", "monthly"}

MonthNames ==
    << "January", "February", "March", "April", "May", "June", "July",
       "August", "September", "October", "November", "December" >>

\* `trading-${selectedTimeframe}-${monthNames[currentMonth]}-${currentYear}.png`
FileName(timeframe, month, year) ==
    << "trading", timeframe, MonthNames[month + 1], year, "png" >>

\* URL.revokeObjectURL(url)
Revoke(r, url) == [r EXCEPT ![url] = @ + 1]

\* if (previewUrl) { URL.revokeObjectURL(previewUrl); }
RevokeIfSet(r, url) == IF url = None THEN r ELSE Revoke(r, url[1])

\* A cleanup that releases the handle of the new render.
PreviewCleanupOfNew(r, old, new) == IF old # new THEN RevokeIfSet(r, new) ELSE r

\* The cleanup of useEffect(..., [previewUrl]): when a render finds
\* previewUrl changed, the handle of the previous render is revoked.
PreviewCleanup(r, old, new) == IF old # new THEN RevokeIfSet(r, old) ELSE r

\* A generateShareImage that waits for the image whatever the canvas gives.
NewGenUnchecked(ctx, forPreview, timeframe, card) ==
    [stage |-> "loading", ctx |-> ctx, forPreview |-> forPreview,
     timeframe |-> timeframe, card |-> card, bg |-> "none", url |-> None]

\* generateShareImage(forPreview) up to the point where it returns: without
\* a canvas or a 2D context it returns null; else it reads the statistics
\* of the selected timeframe and waits for the background image.
NewGen(ctx, forPreview, timeframe, card) ==
    IF ctx
    THEN [stage |-> "loading", ctx |-> TRUE, forPreview |-> forPreview,
          timeframe |-> timeframe, card |-> card, bg |-> "none", url |-> None]
    ELSE [stage |-> "done", ctx |-> FALSE, forPreview |-> forPreview,
          timeframe |-> timeframe, card |-> None, bg |-> "none", url |-> None]

\* An onerror that resolves with null instead of drawing.
OnErrorGivesUp(g) == [g EXCEPT !.stage = "done"]

\* img.onload: background image, overlay, drawContent(), canvas.toBlob(...).
OnLoad(g) == [g EXCEPT !.stage = "encoding", !.bg = "image"]

\* img.onerror: gradient fallback, drawContent(), canvas.toBlob(...).
OnError(g) == [g EXCEPT !.stage = "encoding", !.bg = "gradient"]

\* Most generateShareImage calls followed in one behaviour.
MaxGen == 2

\* The record of the call generateShareImage(true) made in the current
\* render: it closes over this render's selectedTimeframe.
CallGenerate(ctx) ==
    Append(gens,
           NewGen(ctx, TRUE, selectedTimeframe,
                  Some(calculateStats(data, selectedTimeframe, currentMonth,
                                      currentYear, tz))))

\* handleOpenShareModal (the Share button).
HandleOpenShareModal ==
    /\ phase = "ready"
    /\ ~showShareModal /\ ~isModalOpen
    /\ showShareModal' = TRUE
    /\ download' = None
    /\ IF previewUrl = None
       THEN /\ Len(gens) < MaxGen
            /\ \E ctx \in BOOLEAN : gens' = CallGenerate(ctx)
       ELSE UNCHANGED gens
    /\ UNCHANGED <<selectedTimeframe, previewUrl, revoked, clicked, fmtVars, typed>>
    /\ UNCHANGED <<envVars, phase, storeVars, uiVars, viewVars, statVars>>

\* The timeframe select's onChange, and the cleanup of the preview effect
\* that the following render runs.
ChangeTimeframe(timeframe) ==
    /\ phase = "ready"
    /\ showShareModal
    /\ timeframe # selectedTimeframe
    /\ Len(gens) < MaxGen
    /\ selectedTimeframe' = timeframe
    /\ revoked' = PreviewCleanup(RevokeIfSet(revoked, previewUrl), previewUrl, None)
    /\ previewUrl' = None
    /\ \E ctx \in BOOLEAN : gens' = CallGenerate(ctx)
    /\ UNCHANGED <<showShareModal, download, clicked, fmtVars, typed>>
    /\ UNCHANGED <<envVars, phase, storeVars, uiVars, viewVars, statVars>>

\* What the Close button and the backdrop do, and the cleanup of the
\* preview effect that the following render runs.
CloseBody ==
    /\ showShareModal' = FALSE
    /\ revoked' = PreviewCleanup(RevokeIfSet(revoked, previewUrl), previewUrl, None)
    /\ previewUrl' = None
    /\ UNCHANGED <<selectedTimeframe, gens, download, clicked, fmtVars, typed>>
    /\ UNCHANGED <<envVars, phase, storeVars, uiVars, viewVars, statVars>>

\* The Close button's onClick.
CloseShareModal ==
    /\ phase = "ready"
    /\ showShareModal
    /\ CloseBody

\* The backdrop's onClick.
BackdropClick ==
    /\ phase = "ready"
    /\ showShareModal
    /\ CloseBody

\* handleDownload (the Download button, disabled while there is no preview).
HandleDownload ==
    /\ phase = "ready"
    /\ showShareModal
    /\ previewUrl # None
    /\ download' = Some([name |-> FileName(selectedTimeframe, currentMonth, currentYear),
                         url |-> previewUrl[1]])
    /\ showShareModal' = FALSE
    /\ UNCHANGED <<selectedTimeframe, previewUrl, gens, revoked, clicked, fmtVars, typed>>
    /\ UNCHANGED <<envVars, phase, storeVars, uiVars, viewVars, statVars>>

\* The background image of call i has loaded.
ImgOnload(i) ==
    /\ i \in 1..Len(gens)
    /\ gens[i].stage = "loading"
    /\ gens' = [gens EXCEPT ![i] = OnLoad(@)]
    /\ UNCHANGED <<showShareModal, selectedTimeframe, previewUrl, revoked,
                   download, clicked, fmtVars, typed>>
    /\ UNCHANGED <<envVars, phase, storeVars, uiVars, viewVars, statVars>>

\* The background image of call i has failed to load.
ImgOnerror(i) ==
    /\ i \in 1..Len(gens)
    /\ gens[i].stage = "loading"
    /\ gens' = [gens EXCEPT ![i] = OnError(@)]
    /\ UNCHANGED <<showShareModal, selectedTimeframe, previewUrl, revoked,
                   download, clicked, fmtVars, typed>>
    /\ UNCHANGED <<envVars, phase, storeVars, uiVars, viewVars, statVars>>

\* The callback of canvas.toBlob for call i, with a blob or with null, and
\* the render that setPreviewUrl causes.  The setters of a component that
\* has been unmounted do nothing.
ToBlobCallback(i) ==
    /\ i \in 1..Len(gens)
    /\ gens[i].stage = "encoding"
    /\ \E blob \in BOOLEAN :
        LET url == Len(revoked) + 1
            made == Append(revoked, 0)
            mounted == phase = "ready"
        IN  IF ~blob
            THEN /\ gens' = [gens EXCEPT ![i].stage = "done"]
                 /\ UNCHANGED <<showShareModal, previewUrl, revoked, download>>
            ELSE /\ gens' = [gens EXCEPT ![i].stage = "done", ![i].url = Some(url)]
                 /\ IF gens[i].forPreview
                    THEN /\ previewUrl' = IF mounted THEN Some(url) ELSE previewUrl
                         /\ revoked' = IF mounted
                                       THEN PreviewCleanup(made, previewUrl, Some(url))
                                       ELSE made
                         /\ UNCHANGED <<showShareModal, download>>
                    ELSE /\ download' =
                             Some([name |-> FileName(gens[i].timeframe,
                                                     currentMonth, currentYear),
                                   url |-> url])
                         /\ revoked' = Revoke(made, url)
                         /\ showShareModal' = (mounted /\ FALSE)
                         /\ UNCHANGED previewUrl
    /\ UNCHANGED <<selectedTimeframe, clicked, fmtVars, typed>>
    /\ UNCHANGED <<envVars, phase, storeVars, uiVars, viewVars, statVars>>

\* The component is unmounted: the cleanup of the preview effect runs.
Unmount ==
    /\ phase = "ready"
    /\ phase' = "unmounted"
    /\ revoked' = RevokeIfSet(revoked, previewUrl)
    /\ UNCHANGED <<showShareModal, selectedTimeframe, previewUrl, gens,
                   download, clicked, fmtVars, typed>>
    /\ UNCHANGED <<envVars, storeVars, uiVars, viewVars, statVars>>

\* The store the dialog is opened over: 2024-01-31 +100, 2024-02-01 +100
\* and 2024-02-05 -50, so that the three timeframes give different cards.
ShareStore ==
    << Day(2024, 1, 31, 10000), Day(2024, 2, 1, 10000), Day(2024, 2, 5, -5000) >>

\* The dialog's code is the same in both variants; the journal variant has
\* the Clear button beside the Share button.
InitShare ==
    /\ variant = "journal"
    /\ quotaFull = FALSE
    /\ tz = 0
    /\ phase = "ready"
    /\ data = ShareStore
    /\ pending = <<>>
    /\ storage = JSONStringify(data)
    /\ editingDate = None
    /\ isModalOpen = FALSE
    /\ inputValue = ""
    /\ entryValue = ""
    /\ slValue = ""
    /\ tpValue = ""
    /\ currentMonth = GetMonth(Now, tz)
    /\ currentYear = GetFullYear(Now, tz)
    /\ stats = None
    /\ statsFor = "undefined"
    /\ lastOp = "load"
    /\ saveOk = TRUE
    /\ initBlob = None
    /\ ups = Hydrated(data)
    /\ retained = FALSE
    /\ carried = None
    /\ ShareInit
    /\ clicked = None
    /\ value = None /\ shown = None /\ colour = None
    /\ typed = None

NextShare ==
    \/ HandleOpenShareModal
    \/ \E timeframe \in ShareTimeframes : ChangeTimeframe(timeframe)
    \/ CloseShareModal
    \/ BackdropClick
    \/ HandleDownload
    \/ \E i \in 1..MaxGen : ImgOnload(i)
    \/ \E i \in 1..MaxGen : ImgOnerror(i)
    \/ \E i \in 1..MaxGen : ToBlobCallback(i)
    \/ ClearAllData
    \/ Unmount

SpecShare == InitShare /\ [][NextShare]_vars

\* The browser delivers load or error for every image whose src was set,
\* and calls the callback of every toBlob.
ShareFairness ==
    \A i \in 1..MaxGen :
        /\ WF_vars(ImgOnload(i) \/ ImgOnerror(i))
        /\ WF_vars(ToBlobCallback(i))

SpecShareLive == SpecShare /\ ShareFairness

-----------------------------------------------------------------------------
(* The month grid: generateCalendarDays, month navigation, cell clicks. *)

\* A grid whose padding is getDay() - 1, without the "|| 7" for Sunday.
GenerateCalendarDaysSundayZero(year, month, offset) ==
    LET firstDay == LocalMidnight(year, month, 1, offset)
        padding  == GetDay(firstDay, offset) - 1
        lastDay  == GetDate(LocalMidnight(year, month + 1, 0, offset), offset)
    IN  [k \in 1..(lastDay + padding) |->
            LocalMidnight(year, month, k - padding, offset)]

\* generateCalendarDays(): the dates new Date(currentYear, currentMonth, i)
\* for i from 1 - padding to lastDay.
GenerateCalendarDays(year, month, offset) ==
    LET firstDay  == LocalMidnight(year, month, 1, offset)
        dayOfWeek == IF GetDay(firstDay, offset) = 0 THEN 7
                     ELSE GetDay(firstDay, offset)
        padding   == dayOfWeek - 1
        lastDay   == GetDate(LocalMidnight(year, month + 1, 0, offset), offset)
    IN  [k \in 1..(lastDay + padding) |->
            LocalMidnight(year, month, k - padding, offset)]

\* Years the navigation is followed over, before and after the year of Now.
YearSpan == 1

\* A previous-month handler that forgets the year.
PrevMonthSameYear(month, year) ==
    IF month = 0 THEN <<11, year>> ELSE <<month - 1, year>>

\* The previous-month button's handler: <<month, year>> it sets.
PrevMonthOf(month, year) ==
    IF month = 0 THEN <<11, year - 1>> ELSE <<month - 1, year>>

\* The next-month button's handler.
NextMonthOf(month, year) ==
    IF month = 11 THEN <<0, year + 1>> ELSE <<month + 1, year>>

\* The previous-month button.
PrevMonth ==
    /\ phase = "ready"
    /\ ~isModalOpen /\ ~showShareModal
    /\ LET to == PrevMonthOf(currentMonth, currentYear)
       IN  /\ to[2] >= GetFullYear(Now, tz) - YearSpan
           /\ currentMonth' = to[1]
           /\ currentYear' = to[2]
    /\ clicked' = None
    /\ UNCHANGED <<fmtVars, typed>>
    /\ UNCHANGED <<envVars, phase, storeVars, uiVars, statVars, shareVars>>

\* The next-month button.
NextMonth ==
    /\ phase = "ready"
    /\ ~isModalOpen /\ ~showShareModal
    /\ LET to == NextMonthOf(currentMonth, currentYear)
       IN  /\ to[2] <= GetFullYear(Now, tz) + YearSpan
           /\ currentMonth' = to[1]
           /\ currentYear' = to[2]
    /\ clicked' = None
    /\ UNCHANGED <<fmtVars, typed>>
    /\ UNCHANGED <<envVars, phase, storeVars, uiVars, statVars, shareVars>>

\* A click on cell idx of the rendered grid.  A cell whose date is not of
\* the shown month is rendered without a click handler, and handleCellClick
\* returns at once when isCurrent is false.
ClickCell(idx) ==
    /\ phase = "ready"
    /\ ~isModalOpen /\ ~showShareModal
    /\ LET calendarDays == GenerateCalendarDays(currentYear, currentMonth, tz)
       IN  /\ idx \in 1..Len(calendarDays)
           /\ OpenEditor(calendarDays[idx],
                         GetMonth(calendarDays[idx], tz) = currentMonth)
    /\ clicked' = Some(idx)
    /\ typed' = None
    /\ UNCHANGED fmtVars
    /\ UNCHANGED <<envVars, phase, storeVars, viewVars, statVars, shareVars>>

\* The cells that are clicked: the first of the grid, two cells that are
\* padding in some months and days in others, the seventh (never padding)
\* and one further down.
GridCells == {1, 4, 6, 7, 28}

\* Records on the days around the turn of the months January, February and
\* March 2024.
GridStore ==
    << Day(2024, 1, 28, 10000), Day(2024, 1, 29, 10000), Day(2024, 1, 31, -5000),
       Day(2024, 2, 1, 10000), Day(2024, 2, 29, -5000), Day(2024, 3, 1, 10000) >>

InitCalendar ==
    /\ variant = "journal"
    /\ quotaFull = FALSE
    /\ tz \in Offsets
    /\ phase = "ready"
    /\ data = GridStore
    /\ pending = <<>>
    /\ storage = JSONStringify(data)
    /\ editingDate = None
    /\ isModalOpen = FALSE
    /\ inputValue = ""
    /\ entryValue = ""
    /\ slValue = ""
    /\ tpValue = ""
    /\ currentMonth = GetMonth(Now, tz)
    /\ currentYear = GetFullYear(Now, tz)
    /\ stats = None
    /\ statsFor = "undefined"
    /\ lastOp = "load"
    /\ saveOk = TRUE
    /\ initBlob = None
    /\ ups = Hydrated(data)
    /\ retained = FALSE
    /\ carried = None
    /\ ShareInit
    /\ clicked = None
    /\ value = None /\ shown = None /\ colour = None
    /\ typed = None

NextCalendar ==
    \/ PrevMonth
    \/ NextMonth
    \/ \E idx \in GridCells : ClickCell(idx)
    \/ Cancel

SpecCalendar == InitCalendar /\ [][NextCalendar]_vars

\* Saving through the grid: the cells of the first and of the last day of
\* the shown month are clicked and the form is saved or cancelled, at each
\* offset, starting from an empty store.
EdgeCells ==
    LET calendarDays == GenerateCalendarDays(currentYear, currentMonth, tz)
        last == Len(calendarDays)
    IN  {last - GetDate(calendarDays[last], tz) + 1, last}

InitKey ==
    /\ variant = "journal"
    /\ quotaFull = FALSE
    /\ tz \in Offsets
    /\ phase = "ready"
    /\ data = <<>>
    /\ pending = <<>>
    /\ storage = Absent
    /\ editingDate = None
    /\ isModalOpen = FALSE
    /\ inputValue = ""
    /\ entryValue = ""
    /\ slValue = ""
    /\ tpValue = ""
    /\ currentMonth = GetMonth(Now, tz)
    /\ currentYear = GetFullYear(Now, tz)
    /\ stats = None
    /\ statsFor = "undefined"
    /\ lastOp = "load"
    /\ saveOk = TRUE
    /\ initBlob = None
    /\ ups = NoUps
    /\ retained = FALSE
    /\ carried = None
    /\ ShareInit
    /\ clicked = None
    /\ value = None /\ shown = None /\ colour = None
    /\ typed = None

NextKey ==
    \/ \E idx \in EdgeCells : ClickCell(idx)
    \/ UpdateTrade
    \/ Cancel

SpecKey == InitKey /\ [][NextKey]_vars

-----------------------------------------------------------------------------
(* formatPNL.  Its argument is a number of thousandths of a peso; strings  *)
(* are built as the code builds them.  The drawn arguments stay clear of   *)
(* the one-decimal ties whose direction depends on the binary error of the *)
(* double (1.05, 1.15, ...): only ties that are exact doubles (1.25) occur. *)

Abs(n) == IF n < 0 THEN -n ELSE n

\* The last `width` decimal digits of n, zero-padded.
Padded(n, width) ==
    IF width = 3 THEN ToString((n \div 100) % 10) \o ToString((n \div 10) % 10) \o ToString(n % 10)
    ELSE ToString((n \div 10) % 10) \o ToString(n % 10)

\* (abs / 1000).toFixed(digits) for digits 0 and 1; a tie goes to the larger.
ToFixedK(abs, digits) ==
    IF digits = 0
    THEN ToString((abs + 500000) \div 1000000)
    ELSE LET n == (abs + 50000) \div 100000
         IN  ToString(n \div 10) \o "." \o ToString(n % 10)

\* abs.toLocaleString("en-US", {minimumFractionDigits: 2, maximumFractionDigits: 2}):
\* rounded half away from zero to hundredths, thousands grouped by a comma.
ToLocaleString2(abs) ==
    LET c == (abs + 5) \div 10
        int == c \div 100
        grouped == IF int >= 1000
                   THEN ToString(int \div 1000) \o "," \o Padded(int % 1000, 3)
                   ELSE ToString(int)
    IN  grouped \o "." \o Padded(c % 100, 2)

\* A formatter that keeps one decimal for every abbreviated magnitude.
formatPNLOneDecimal(v) ==
    IF v = 0 THEN "₱0"
    ELSE LET sign == IF v > 0 THEN "+" ELSE ""
             abs == Abs(v)
         IN  IF abs >= 1000000
             THEN sign \o "₱" \o ToFixedK(abs, 1) \o "K"
             ELSE sign \o "₱" \o ToLocaleString2(abs)

\* A formatter that writes the sign of a negative value.
formatPNLSigned(v) ==
    IF v = 0 THEN "₱0"
    ELSE LET sign == IF v > 0 THEN "+" ELSE "-"
             abs == Abs(v)
         IN  IF abs >= 1000000
             THEN sign \o "₱" \o ToFixedK(abs, IF abs % 1000000 = 0 THEN 0 ELSE 1) \o "K"
             ELSE sign \o "₱" \o ToLocaleString2(abs)

formatPNL(v) ==
    IF v = 0 THEN "₱0"
    ELSE LET sign == IF v > 0 THEN "+" ELSE ""
             abs == Abs(v)
         IN  IF abs >= 1000000
             THEN sign \o "₱" \o ToFixedK(abs, IF abs % 1000000 = 0 THEN 0 ELSE 1) \o "K"
             ELSE sign \o "₱" \o ToLocaleString2(abs)

\* The magnitudes drawn, in thousandths: around 0, 42.5, 1000 and 2000, and
\* single values up to the millions.
Magnitudes ==
    (0 .. 12) \cup (42494 .. 42506) \cup (999940 .. 1000010)
        \cup (1999990 .. 2000010)
        \cup {500, 995, 999, 1000, 1230, 999000, 999994, 999995, 999999,
              1234560, 1250000, 1500000, 1549999, 1750000, 12000000,
              999949999, 999950000, 1234567000}

FormatInputs == Magnitudes \cup { -m : m \in Magnitudes }

\* Stores whose totals are negative, zero and positive, below and above 1000.
FormatStores ==
    { <<>>,
      << Day(2024, 2, 5, -5000) >>,
      << Day(2024, 2, 4, 10000), Day(2024, 2, 5, -160000) >>,
      << Day(2024, 2, 4, -10000), Day(2024, 2, 5, 210000) >>,
      << Day(2024, 1, 5, -300000), Day(2024, 2, 5, 4250) >> }

InitFormat ==
    /\ data \in FormatStores
    /\ variant = "journal"
    /\ quotaFull = FALSE
    /\ tz = 0
    /\ phase = "ready"
    /\ pending = <<>>
    /\ storage = IF data = <<>> THEN Absent ELSE JSONStringify(data)
    /\ editingDate = None
    /\ isModalOpen = FALSE
    /\ inputValue = ""
    /\ entryValue = ""
    /\ slValue = ""
    /\ tpValue = ""
    /\ currentMonth = 1
    /\ currentYear = 2024
    /\ stats = None
    /\ statsFor = "undefined"
    /\ lastOp = "load"
    /\ saveOk = TRUE
    /\ initBlob = None
    /\ ups = Hydrated(data)
    /\ retained = FALSE
    /\ carried = None
    /\ ShareInit
    /\ clicked = None
    /\ value \in { Some(v) : v \in FormatInputs }
    /\ shown = None
    /\ colour = None
    /\ typed = None

formatFrame ==
    UNCHANGED <<envVars, storeVars, phase, uiVars, viewVars, statVars, shareVars,
                clicked, typed>>

\* formatPNL(value).
FormatPNL ==
    /\ shown = None
    /\ shown' = Some(formatPNL(value[1]))
    /\ UNCHANGED <<value, colour>>
    /\ formatFrame

\* The header: calculateStats() and the total in emerald or red.
RenderHeader ==
    LET total == calculateStats(data, "undefined", currentMonth, currentYear, tz).total
    IN  /\ value' = Some(10 * total)
        /\ shown' = Some(formatPNL(10 * total))
        /\ colour' = Some(IF total >= 0 THEN "text-emerald-400" ELSE "text-red-400")
        /\ formatFrame

\* The share card's headline: the total of the selected window in its box.
DrawTotal(timeframe) ==
    LET total == calculateStats(data, timeframe, currentMonth, currentYear, tz).total
    IN  /\ value' = Some(10 * total)
        /\ shown' = Some(formatPNL(10 * total))
        /\ colour' = Some(IF total >= 0 THEN "#22c55e" ELSE "#ef4444")
        /\ formatFrame

\* The share card's "Weekly P&L" row.
DrawWeekly(timeframe) ==
    LET weeklyProfit ==
            calculateStats(data, timeframe, currentMonth, currentYear, tz).weeklyProfit
    IN  /\ value' = Some(10 * weeklyProfit)
        /\ shown' = Some(formatPNL(10 * weeklyProfit))
        /\ colour' = Some(IF weeklyProfit >= 0 THEN "#22c55e" ELSE "#ef4444")
        /\ formatFrame

NextFormat ==
    \/ FormatPNL
    \/ RenderHeader
    \/ \E timeframe \in ShareTimeframes : DrawTotal(timeframe)
    \/ \E timeframe \in ShareTimeframes : DrawWeekly(timeframe)

SpecFormat == InitFormat /\ [][NextFormat]_vars

-----------------------------------------------------------------------------
(* updateTrade as a function of the store and of editingDate.  The form    *)
(* cannot be opened without an editing date, so the case of a null         *)
(* editingDate is drawn here, together with stores of up to three records, *)
(* one of them with two records on one date (generateSampleData).          *)

UpsertStores ==
    { <<>>,
      <<SavedA>>,
      <<SavedA, SavedB>>,
      <<SavedB, SavedA>>,
      << Day(2024, 2, 5, -5000), Day(2024, 2, 5, 10000), SavedA >> }

InitUpsert ==
    /\ data \in UpsertStores
    /\ variant = (IF DistinctDates(data) THEN "journal" ELSE "calendar")
    /\ quotaFull = FALSE
    /\ tz = 0
    /\ phase = "ready"
    /\ pending = <<>>
    /\ storage = IF data = <<>> THEN Absent ELSE JSONStringify(data)
    /\ editingDate \in {None} \cup { Some(ISODate(LocalMidnight(2024, 1, day, 0))) :
                                        day \in ClickDays }
    /\ isModalOpen = TRUE
    /\ inputValue = "0"
    /\ entryValue = ""
    /\ slValue = ""
    /\ tpValue = ""
    /\ currentMonth = 1
    /\ currentYear = 2024
    /\ stats = None
    /\ statsFor = "undefined"
    /\ lastOp = "load"
    /\ saveOk = TRUE
    /\ initBlob = None
    /\ ups = Hydrated(data)
    /\ retained = FALSE
    /\ carried = None
    /\ ShareInit
    /\ clicked = None
    /\ value = None /\ shown = None /\ colour = None
    /\ typed = None

NextUpsert ==
    \/ UpdateTrade
    \/ Cancel
    \/ \E day \in ClickDays : HandleCellClick(day)

SpecUpsert == InitUpsert /\ [][NextUpsert]_vars

-----------------------------------------------------------------------------
(* Properties of the store and its persistence (checked under Spec). *)

\* The date keys a lookup is tried on: the week around today.
ProbeKeys == (Today - 7)..(Today + 1)

C2_NoDuplicateDates ==
    \A i, j \in 1..Len(data) : i # j => data[i].date # data[j].date

\* C3: once a mutation has settled and its write succeeded, the key holds
\* the serialization of the whole current store when the store is not
\* empty (parsing it gives back every record, in order), and is absent when
\* the store is empty.
C3_StorageMirrorsStore ==
    (phase = "ready" /\ lastOp \in {"upsert", "clear"} /\ saveOk) =>
        IF Len(data) = 0
        THEN storage = Absent
        ELSE /\ storage.kind = "array"
             /\ Len(storage.items) = Len(data)
             /\ \A i \in 1..Len(data) : ReadRecord(storage.items[i]) = data[i]

\* An upsert has settled with a successful write of a store of two records,
\* one of them without an entry price.
C3_Witness ==
    /\ phase = "ready"
    /\ lastOp = "upsert"
    /\ saveOk
    /\ Len(data) = 2
    /\ storage.kind = "array"
    /\ \E i \in 1..2 : data[i].entry = None

\* C4: on load, when the key is absent or its value does not parse as an
\* array, the store starts empty, and a bad value that is present has been
\* deleted from storage.  (Stated as claimed, at the moment the hydrated
\* state is rendered; the calendar variant seeds the store instead.)
C4_BadLoadStartsEmpty ==
    (phase = "save" /\ initBlob # None /\ ~LoadsArray(initBlob[1])) =>
        /\ data = <<>>
        /\ initBlob[1].kind \in {"invalid", "object"} => storage = Absent

\* The records of a store, as a set.
RecordSet(s) == { s[i] : i \in 1..Len(s) }

\* C5: a store that was saved and is then loaded by a fresh start comes
\* back with the same set of records; an empty store comes back empty.
C5_RoundTrip ==
    (phase = "save" /\ carried # None) =>
        /\ RecordSet(data) = RecordSet(carried[1])
        /\ carried[1] = <<>> => data = <<>>

\* A store of two records, with both a defined and an undefined optional
\* field, has been saved and loaded again.
C5_Witness ==
    /\ phase = "save"
    /\ carried # None
    /\ Len(carried[1]) = 2
    /\ \E i \in 1..2 : carried[1][i].entry = None /\ carried[1][i].sl # None
    /\ data = carried[1]

\* C18: when setItem throws, the error is caught: the component goes on
\* (it is ready for the next event), the store in memory holds every record
\* as upserted, the stored value is left as it was, and no later step
\* writes it until a mutation's save effect succeeds or the page is opened
\* again.
C18_FailedWriteIsDropped ==
    /\ [][~saveOk' => (storage' = storage /\ phase' = "ready")]_vars
    /\ [](~saveOk =>
            /\ quotaFull
            /\ data # <<>>
            /\ {data[i].date : i \in 1..Len(data)} = DOMAIN ups
            /\ \A key \in DOMAIN ups :
                  Find(data, key) =
                      Some(TradeData(key, ups[key].pnl, ups[key].entry,
                                     ups[key].sl, ups[key].tp)))

\* Upserts have failed to be written: the store in memory holds a changed
\* record and a new one, storage still holds the one record it had.
C18_Witness ==
    /\ phase = "ready"
    /\ lastOp = "upsert"
    /\ ~saveOk
    /\ storage = JSONStringify(<<SavedA>>)
    /\ Len(data) = 2
    /\ data[1] # SavedA

-----------------------------------------------------------------------------
(* Properties of calculateStats (checked under SpecStats). *)

\* The winRate text as a number of tenths.
Tenths(w) == w.whole * 10 + (IF w.tenth = None THEN 0 ELSE w.tenth[1])

\* C6, as claimed: winRate is in [0, 100] and is 0 if and only if
\* tradedDays is 0.
C6_ZeroIffNoTradedDays ==
    stats # None =>
        /\ Tenths(stats[1].winRate) \in 0..1000
        /\ Tenths(stats[1].winRate) = 0 <=> stats[1].traded = 0

\* C6, amended: winRate is in [0, 100]; it is 0 whenever there is no win,
\* that is when tradedDays is 0 (the text "0") and also when every traded
\* day is a loss (the text "0.0"); the text carries a decimal exactly when
\* tradedDays is not 0.
C6_ZeroWhenNoWin ==
    stats # None =>
        /\ Tenths(stats[1].winRate) \in 0..1000
        /\ stats[1].traded = 0 => Tenths(stats[1].winRate) = 0
        /\ stats[1].wins = 0 => Tenths(stats[1].winRate) = 0
        /\ stats[1].winRate.tenth = None <=> stats[1].traded = 0

\* A window whose traded days are all losses: winRate is 0, tradedDays not.
C6_Witness ==
    /\ stats # None
    /\ stats[1].traded > 0
    /\ stats[1].wins = 0
    /\ Tenths(stats[1].winRate) = 0

\* The window's records in ascending date order, records of one date in
\* store order: the record of rank r is the one that r - 1 others precede.
Precedes(w, i, j) ==
    \/ w[i].date < w[j].date
    \/ w[i].date = w[j].date /\ i < j

Ranked(w) ==
    [r \in 1..Len(w) |->
        w[CHOOSE i \in 1..Len(w) :
            Cardinality({j \in 1..Len(w) : Precedes(w, j, i)}) = r - 1]]

\* The most wins found in a stretch of consecutive days without a loss.
BestRun(s) ==
    LET runs == { <<i, j>> \in (1..Len(s)) \X (1..Len(s)) :
                    i <= j /\ \A k \in i..j : s[k].pnl >= 0 }
        winsIn(r) == Cardinality({k \in r[1]..r[2] : s[k].pnl > 0})
    IN  IF runs = {} THEN 0
        ELSE CHOOSE n \in 0..Len(s) :
                /\ \E r \in runs : winsIn(r) = n
                /\ \A r \in runs : winsIn(r) <= n

LatestDate(s) ==
    CHOOSE d \in {s[i].date : i \in 1..Len(s)} :
        \A i \in 1..Len(s) : s[i].date <= d

\* C7: maxWinStreak is the maximum of a counter run over the window in
\* ascending date order, incremented on a win, reset by a loss and left
\* alone by a zero day; daily P&L [+10, 0, +5, -1, +20] gives 2; a winning
\* day appended after the latest date never decreases it.
C7_MaxWinStreak ==
    stats # None =>
        LET window == PeriodData(data, statsFor, currentMonth, currentYear, tz)
        IN  /\ stats[1].maxStreak = BestRun(Ranked(window))
            /\ (data = StreakExample /\ statsFor = "weekly")
                  => stats[1].maxStreak = 2
            /\ \A later \in 1..2 :
                  LET day == IF data = <<>> THEN Today ELSE LatestDate(data) + later
                      more == Append(data, TradeData(day, 10000, None, None, None))
                  IN  calculateStats(more, statsFor, currentMonth,
                                     currentYear, tz).maxStreak
                          >= stats[1].maxStreak

\* The example [+10, 0, +5, -1, +20] has been aggregated over the week.
C7_Witness ==
    /\ stats # None
    /\ data = StreakExample
    /\ statsFor = "weekly"
    /\ stats[1].maxStreak = 2

Count(s, Test(_)) == Len(SelectSeq(s, Test))

\* C8, as claimed: calculateStats() without a timeframe aggregates all the
\* records of the store, whatever month is shown.
C8_NoTimeframeIsAllRecords ==
    (stats # None /\ statsFor = "undefined") =>
        LET traded(d) == d.pnl # 0
        IN  /\ stats[1].total = SumPnl(data)
            /\ stats[1].traded = Count(data, traded)

\* C9, as claimed: the weekly window and weeklyProfit hold exactly the
\* records of the seven days up to and including today.
C9_WeekIsTrailingSevenDays ==
    stats # None =>
        LET inWeek(d) == d.date >= Today - 6 /\ d.date <= Today
        IN  /\ stats[1].weeklyProfit = SumPnl(SelectSeq(data, inWeek))
            /\ statsFor = "weekly" =>
                  stats[1].total = SumPnl(SelectSeq(data, inWeek))

\* C10, as claimed: for the monthly window of (month, year), total, traded,
\* wins and losses are taken over exactly the records dated in that month;
\* the January scenario gives 50, 2, 1, 1 and 50.0.
C10_MonthlyIsRecordsOfMonth ==
    (stats # None /\ statsFor = "monthly") =>
        LET inMonth(d) ==
                /\ CivilFromDays(d.date).y = currentYear
                /\ CivilFromDays(d.date).m = currentMonth + 1
            ofMonth == SelectSeq(data, inMonth)
            traded(d) == d.pnl # 0
            win(d) == d.pnl > 0
            loss(d) == d.pnl < 0
        IN  /\ stats[1].total = SumPnl(ofMonth)
            /\ stats[1].traded = Count(ofMonth, traded)
            /\ stats[1].wins = Count(ofMonth, win)
            /\ stats[1].losses = Count(ofMonth, loss)
            /\ (data = JanuaryExample /\ currentMonth = 0) =>
                  /\ stats[1].total = 5000
                  /\ stats[1].traded = 2
                  /\ stats[1].wins = 1
                  /\ stats[1].losses = 1
                  /\ stats[1].winRate = [whole |-> 50, tenth |-> Some(0)]

\* The orders the records of a store of n records can be held in.
Orders(n) == { f \in [1..n -> 1..n] : \A i, j \in 1..n : i # j => f[i] # f[j] }

\* C11, as claimed: two stores holding the same records in different orders
\* give the same total, tradedDays, wins, losses, winRate, maxWinStreak and
\* weeklyProfit, for every window.
C11_StatsIgnoreOrder ==
    stats # None =>
        \A f \in Orders(Len(data)) :
            calculateStats([i \in 1..Len(data) |-> data[f[i]]], statsFor,
                           currentMonth, currentYear, tz) = stats[1]

-----------------------------------------------------------------------------
(* Properties of the share dialog (checked under SpecShare, the liveness   *)
(* property under SpecShareLive).                                          *)

\* C12, as claimed: whatever the order of the dialog's events, no handle
\* made by URL.createObjectURL is revoked more than once.
C12_RevokedAtMostOnce ==
    \A url \in 1..Len(revoked) : revoked[url] <= 1

\* Call i of generateShareImage gets its encoded result in this step.
Arrives(i) ==
    /\ i \in 1..Len(gens)
    /\ gens[i].stage = "encoding"
    /\ gens'[i].stage = "done"
    /\ gens'[i].url # None

\* C13, as claimed: when the result of a generation arrives while the
\* dialog is closed, its handle is revoked at once and is not kept as the
\* preview.
C13_LateResultIsReleased ==
    [][\A i \in 1..MaxGen :
          (Arrives(i) /\ phase = "ready" /\ ~showShareModal) =>
              /\ revoked'[gens'[i].url[1]] >= 1
              /\ previewUrl' # gens'[i].url]_vars

\* The calls of generateShareImage that have not resolved yet.
InFlight == { i \in 1..Len(gens) : gens[i].stage # "done" }

\* C14, as claimed: at most one generation is in flight at any time, and
\* while one is in flight no step starts another, changes the store or
\* changes the selected timeframe.
C14_OneGenerationAtATime ==
    /\ [](Cardinality(InFlight) <= 1)
    /\ [][InFlight # {} =>
            /\ Len(gens') = Len(gens)
            /\ data' = data
            /\ selectedTimeframe' = selectedTimeframe]_vars

\* C15, as claimed: a download offers the file under the name
\* trading-<timeframe>-<MonthName>-<year>.png and the handle it used has
\* been revoked once the download is done.
C15_DownloadNamedAndReleased ==
    download # None =>
        /\ download[1].name =
              FileName(selectedTimeframe, currentMonth, currentYear)
        /\ revoked[download[1].url] >= 1

\* This step calls generateShareImage and the call finds no canvas or no
\* 2D context.
CallsWithoutContext ==
    /\ Len(gens') = Len(gens) + 1
    /\ ~gens'[Len(gens')].ctx

\* C16: a generateShareImage call that finds no canvas or 2D context
\* resolves to null, makes no handle, and leaves the store, the persisted
\* value and the computed statistics unchanged; the preview handle is what
\* the calling handler left it as (untouched by the Share button, reset by
\* the timeframe select before the call).
C16_NoContextFails ==
    [][CallsWithoutContext =>
          /\ gens'[Len(gens')].stage = "done"
          /\ gens'[Len(gens')].url = None
          /\ Len(revoked') = Len(revoked)
          /\ data' = data
          /\ storage' = storage
          /\ stats' = stats
          /\ <<currentMonth, currentYear>>' = <<currentMonth, currentYear>>
          /\ \/ previewUrl' = previewUrl
             \/ showShareModal /\ previewUrl' = None]_vars

\* The Share button was pressed with no drawing context available: the
\* call has resolved to null and the dialog shows no preview.
C16_Witness ==
    /\ Len(gens) = 1
    /\ ~gens[1].ctx
    /\ gens[1].stage = "done"
    /\ gens[1].url = None
    /\ showShareModal
    /\ previewUrl = None
    /\ data = ShareStore

-----------------------------------------------------------------------------
(* Properties of the month grid (checked under SpecCalendar). *)

\* Day number of the first day of the shown month, and of the next month.
FirstOfMonth == DaysFromCivil(currentYear, currentMonth + 1, 1)
FirstOfNext ==
    IF currentMonth = 11 THEN DaysFromCivil(currentYear + 1, 1, 1)
    ELSE DaysFromCivil(currentYear, currentMonth + 2, 1)

\* Days from the Monday on or before the first of the month to the first.
DaysSinceMonday == (FirstOfMonth + 3) % 7

\* The local calendar day (as a day number) that a grid entry stands for.
LocalDay(instant) == (instant + tz) \div 24

\* C19: the grid of the shown month has padding + daysInMonth entries,
\* padding in 0..6 being the days from the preceding Monday to the 1st; the
\* entries are consecutive local midnights, the first is a Monday, the last
\* is the last day of the month, nothing follows it.
C19_GridIsMondayToMonthEnd ==
    LET days == GenerateCalendarDays(currentYear, currentMonth, tz)
    IN  /\ DaysSinceMonday \in 0..6
        /\ Len(days) = DaysSinceMonday + (FirstOfNext - FirstOfMonth)
        /\ \A k \in 1..Len(days) :
              /\ (days[k] + tz) % 24 = 0
              /\ LocalDay(days[k]) = FirstOfMonth - DaysSinceMonday + k - 1
        /\ (LocalDay(days[1]) + 3) % 7 = 0
        /\ LocalDay(days[Len(days)]) = FirstOfNext - 1

\* A month that begins on a Sunday is shown (September 2024) and a cell of
\* its grid of 6 + 30 entries has been clicked.
C19_Witness ==
    /\ currentYear = 2024
    /\ currentMonth = 8
    /\ Len(GenerateCalendarDays(currentYear, currentMonth, tz)) = 36
    /\ clicked = Some(7)
    /\ isModalOpen
    /\ editingDate = Some(ISODate(LocalMidnight(2024, 8, 1, tz)))

\* The grid cells that stand for days of the preceding month: by C19 the
\* cells before the one of the 1st.
PaddingCells == 1..DaysSinceMonday

\* The days the padding cells stand for.
PaddingDays == (FirstOfMonth - DaysSinceMonday)..(FirstOfMonth - 1)

\* The date keys of the padding cells: the days they stand for and the keys
\* their lookups use (the UTC day of the local midnight).
PaddingKeys == PaddingDays \cup { ISODate(d * 24 - tz) : d \in PaddingDays }

\* The statistics of the shown month: all of calculateStats but the
\* trailing-week sum, which is taken over the whole store.
OfMonth(s, timeframe) ==
    [calculateStats(s, timeframe, currentMonth, currentYear, tz)
        EXCEPT !.weeklyProfit = 0]

\* C20: the records dated on padding days add nothing to the statistics of
\* the shown month (total, tradedDays, wins, losses, winRate, maxWinStreak),
\* and a click on a padding cell leaves editingDate, the form, the modal
\* state, the store and storage as they were.
C20_PaddingIsInert ==
    /\ [](LET notPadding(d) == d.date \notin PaddingKeys
          IN  \A timeframe \in {"undefined", "monthly"} :
                OfMonth(data, timeframe)
                    = OfMonth(SelectSeq(data, notPadding), timeframe))
    /\ [][(clicked' # None /\ clicked' # clicked /\ clicked'[1] \in PaddingCells) =>
            /\ uiVars' = uiVars
            /\ data' = data
            /\ storage' = storage]_vars

\* A padding cell whose day has a record has been clicked: no form is open.
C20_Witness ==
    /\ clicked # None
    /\ clicked[1] \in PaddingCells
    /\ LocalDay(GenerateCalendarDays(currentYear, currentMonth, tz)[clicked[1]])
          \in PaddingDays
    /\ getTrade(data, GenerateCalendarDays(currentYear, currentMonth, tz)[clicked[1]])
          # None
    /\ ~isModalOpen
    /\ editingDate = None


-----------------------------------------------------------------------------
(* formatPNL *)

\* The numerals with exactly two decimals that stand for c hundredths, with
\* or without a thousands separator.
TwoDecimals(c) ==
    LET int == c \div 100
        frac == ToString((c \div 10) % 10) \o ToString(c % 10)
    IN  {ToString(int) \o "." \o frac}
            \cup (IF int >= 1000
                  THEN {ToString(int \div 1000) \o "," \o ToString((int \div 100) % 10)
                            \o ToString((int \div 10) % 10) \o ToString(int % 10)
                            \o "." \o frac}
                  ELSE {})

\* What the rule allows after the currency sign for a magnitude abs > 0.
RuleBodies(abs) ==
    IF abs >= 1000000
    THEN IF abs % 1000000 = 0
         THEN {ToString(abs \div 1000000) \o "K"}
         ELSE { ToString(n \div 10) \o "." \o ToString(n % 10) \o "K" :
                  n \in {m \in {abs \div 100000, abs \div 100000 + 1} :
                            Abs(m * 100000 - abs) <= 50000} }
    ELSE UNION { TwoDecimals(c) :
                  c \in {m \in {abs \div 10, abs \div 10 + 1} : Abs(m * 10 - abs) <= 5} }

\* C21: formatPNL follows its rule on every input: 0 gives "₱0"; a magnitude
\* of 1000 or more is abbreviated in K, with one decimal or with none when it
\* is a multiple of 1000; any other magnitude is shown with exactly two
\* decimals; a positive value, and only a positive value, is prefixed with
\* "+".  formatPNL(1500) = "+₱1.5K", formatPNL(2000) = "+₱2K" and
\* formatPNL(42.5) = "+₱42.50".
C21_FormatFollowsRule ==
    shown # None =>
        LET v == value[1]
            out == shown[1]
        IN  /\ v = 0 => out = "₱0"
            /\ v > 0 => \E body \in RuleBodies(v) : out = "+₱" \o body
            /\ v < 0 => \E body \in RuleBodies(-v) : out \in {"₱" \o body, "-₱" \o body}
            /\ v = 1500000 => out = "+₱1.5K"
            /\ v = 2000000 => out = "+₱2K"
            /\ v = 42500 => out = "+₱42.50"

\* formatPNL(1500) has been called and returned "+₱1.5K".
C21_Witness == value = Some(1500000) /\ shown = Some("+₱1.5K")

\* C22: formatPNL never emits a minus sign: for a negative value its output
\* is the output for the magnitude without the leading "+"; on the header
\* and on the share card a negative total or weekly P&L differs from its
\* magnitude by the colour and by that "+" only.
C22_NoMinusSign ==
    /\ shown # None /\ value[1] < 0
            => "+" \o shown[1] = formatPNL(-value[1])
    /\ shown # None /\ value[1] > 0
            => \E body \in RuleBodies(value[1]) : shown[1] = "+₱" \o body
    /\ colour # None
            => /\ shown # None
               /\ colour[1] \in {"text-red-400", "#ef4444"} <=> value[1] < 0

\* The header shows the total -1500 as "₱1.5K" in red.
C22_Witness ==
    /\ value = Some(-1500000)
    /\ shown = Some("₱1.5K")
    /\ colour = Some("text-red-400")

-----------------------------------------------------------------------------
(* The edit form's Save *)

\* This step is a Save of the form for a date that has a record.
SavesExisting ==
    /\ isModalOpen /\ ~isModalOpen'
    /\ typed' # None
    /\ inputValue' = ""
    /\ editingDate # None /\ editingDate' = editingDate
    /\ Find(data, editingDate[1]) # None

\* C23: saving the form for a date that already has a record overwrites each
\* optional field (entry, stop-loss, take-profit) whose input the user filled
\* in, the value 0 included, and keeps the prior value of each field whose
\* input is blank.
C23_SaveOverwritesEntered ==
    [][SavesExisting =>
        LET old == Find(data, editingDate[1])[1]
            new == Find(data', editingDate[1])
        IN  /\ new # None
            /\ \A f \in OptFields :
                  new[1][f] = (IF typed'[1][f] = "" THEN old[f]
                               ELSE ParseFloat(typed'[1][f]))]_vars

-----------------------------------------------------------------------------
(* The share dialog's preview *)

\* The calls whose result is the handle held in previewUrl.
Shows == { i \in 1..Len(gens) : previewUrl # None /\ gens[i].url = previewUrl }

\* C24: the preview generated in response to selecting a timeframe is
\* computed with the selected window, and whenever a preview is held and no
\* generation is in flight, the timeframe it was rendered for is the
\* selected one (the one of the download file name).
C24_PreviewMatchesTimeframe ==
    /\ [][(selectedTimeframe' # selectedTimeframe /\ Len(gens') > Len(gens))
            => gens'[Len(gens')].timeframe = selectedTimeframe']_vars
    /\ [](phase = "ready" /\ previewUrl # None /\ InFlight = {}
            => \A i \in Shows : gens[i].timeframe = selectedTimeframe)

\* C25: whenever the dialog is open and shows a preview, the preview was
\* rendered from the store and the shown month and year of that moment.
C25_PreviewIsCurrent ==
    (phase = "ready" /\ showShareModal /\ previewUrl # None)
        => \A i \in Shows :
              gens[i].card = Some(calculateStats(data, gens[i].timeframe,
                                                 currentMonth, currentYear, tz))

\* C26: no released handle is used: while the component is mounted the
\* handle held in previewUrl has not been revoked, and the handle given to
\* the Download button's link has not been revoked either.
C26_PreviewHandleIsLive ==
    /\ [](phase = "ready" /\ previewUrl # None => revoked[previewUrl[1]] = 0)
    /\ [][(download' # download /\ download' # None /\ previewUrl # None)
            => revoked[download'[1].url] = 0]_vars

\* A second preview is shown after the handle of the first was released.
C26_Witness ==
    /\ phase = "ready" /\ showShareModal
    /\ previewUrl = Some(2)
    /\ revoked[1] > 0 /\ revoked[2] = 0
    /\ download = None

-----------------------------------------------------------------------------
(* Mount and the persisted array *)

\* C27: while the user has made no mutation, no step deletes or alters a
\* non-empty array held under the key: not the load effect, not the save
\* effect on the initial empty state, not the save effect on the hydrated
\* state, whether or not its write fails.
C27_MountKeepsBlob ==
    [][(lastOp' \in {"none", "load"} /\ storage.kind = "array" /\ storage.items # <<>>)
            => storage' = storage]_vars

-----------------------------------------------------------------------------
(* The frame of updateTrade and Cancel *)

\* The records of s with another date than d, in their order.
Others(s, d) == SelectSeq(s, LAMBDA r : r.date # d)

\* C28: an upsert for date d changes nothing but the record for d: the
\* records with another date keep all their fields and their order, the
\* store grows by exactly one record when d was absent and keeps its length
\* when d was present; updateTrade without an editing date, and Cancel,
\* leave the store as it is.
C28_UpsertFrame ==
    [][/\ (typed = None /\ typed' # None) =>
            LET d == editingDate[1]
            IN  /\ Others(data', d) = Others(data, d)
                /\ Len(data') = Len(data) + (IF Find(data, d) = None THEN 1 ELSE 0)
                /\ Len(SelectSeq(data', LAMBDA r : r.date = d))
                      = Max(1, Len(SelectSeq(data, LAMBDA r : r.date = d)))
       /\ (isModalOpen /\ editingDate = None) => data' = data /\ storage' = storage
       /\ (isModalOpen /\ ~isModalOpen' /\ typed' = None /\ phase' = "ready")
            => data' = data /\ storage' = storage]_vars

\* An upsert has rewritten the first of two records of 2024-02-05 and left
\* the second and the record of 2024-02-01 where they were.
C28_Witness ==
    /\ typed # None
    /\ Len(data) = 3
    /\ data[1] = Day(2024, 2, 5, 0)
    /\ data[2] = Day(2024, 2, 5, 10000)
    /\ data[3] = SavedA

-----------------------------------------------------------------------------
(* Month navigation *)

\* Months since year 0 of the view <<month, year>>.
MonthCount(view) == 12 * view[2] + view[1]

\* C29: currentMonth stays in 0..11; "previous" goes back one month (from
\* January to December of the year before) and "next" goes on one month
\* (from December to January of the year after), the year changing in no
\* other case; "next" then "previous", and "previous" then "next", come back
\* to the same month and year; the shown month changes in no other way.
C29_NavigationWraps ==
    /\ [](LET here == <<currentMonth, currentYear>>
              prev == PrevMonthOf(currentMonth, currentYear)
              next == NextMonthOf(currentMonth, currentYear)
          IN  /\ currentMonth \in 0..11
              /\ prev[1] \in 0..11 /\ MonthCount(prev) = MonthCount(here) - 1
              /\ next[1] \in 0..11 /\ MonthCount(next) = MonthCount(here) + 1
              /\ currentMonth = 0 => prev = <<11, currentYear - 1>>
              /\ currentMonth = 11 => next = <<0, currentYear + 1>>
              /\ currentMonth # 0 => prev[2] = currentYear
              /\ currentMonth # 11 => next[2] = currentYear
              /\ PrevMonthOf(next[1], next[2]) = here
              /\ NextMonthOf(prev[1], prev[2]) = here)
    /\ [][<<currentMonth, currentYear>>' # <<currentMonth, currentYear>>
            => \/ MonthCount(<<currentMonth', currentYear'>>)
                    = MonthCount(<<currentMonth, currentYear>>) + 1
               \/ MonthCount(<<currentMonth', currentYear'>>)
                    = MonthCount(<<currentMonth, currentYear>>) - 1]_vars

\* "Previous" has been pressed in January: December of the year before.
C29_Witness ==
    /\ currentMonth = 11
    /\ currentYear = GetFullYear(Now, tz) - 1
    /\ phase = "ready"
    /\ ~isModalOpen

-----------------------------------------------------------------------------
(* The date key of a cell *)

\* C30: at every offset of local time from UTC, a record saved through the
\* cell of day D of the shown month is stored under the key of that calendar
\* day, is found again by getTrade for that cell, and is counted in the
\* monthly window of the shown month and year, the first and the last day
\* of the month included.
C30_CellKeyIsItsDay ==
    (typed # None /\ clicked # None) =>
        LET cell == GenerateCalendarDays(currentYear, currentMonth, tz)[clicked[1]]
            monthly == PeriodData(data, "monthly", currentMonth, currentYear, tz)
        IN  /\ editingDate = Some(LocalDay(cell))
            /\ Find(data, LocalDay(cell)) # None
            /\ getTrade(data, cell) # None
            /\ \E i \in 1..Len(monthly) : monthly[i] = getTrade(data, cell)[1]

=========================================================================
